---------------------------- MODULE Spec2Model ----------------------------
(***************************************************************************)
(* Model of the kapp end-to-end harness: the three orchestrators           *)
(* (sequential RunTests of main.go, concurrent RunTests, Test_Integration  *)
(* subtests) over the shared steps createNS, RunKapp, RunKubeCreate,       *)
(* PodsStarted, getEndPoints, pingEndPoints and the namespace delete.      *)
(*                                                                         *)
(* Go strings are sequences of one-character strings, so that              *)
(* strings.Contains and fmt.Sprintf are computed and not assumed.  The     *)
(* cluster, the two external tools and the HTTP targets are the            *)
(* environment: every call draws its outcome from a small set.             *)
(***************************************************************************)
EXTENDS Integers, Sequences, FiniteSets, TLC

(***************************************************************************)
(* Bounds of the model.                                                    *)
(***************************************************************************)
\* list calls one PodsStarted call may issue before the model stops it
MaxPolls == 2
\* HTTP requests one pingEndPoints call may issue before the model stops it
MaxProbes == 3

(***************************************************************************)
(* Strings.                                                                *)
(***************************************************************************)
Range(s) == {s[x] : x \in DOMAIN s}

\* strings.Contains(s, substr)
Contains(s, substr) ==
    \E off \in 0..(Len(s) - Len(substr)) :
        SubSeq(s, off + 1, off + Len(substr)) = substr

Digits == <<"0", "1", "2", "3", "4", "5", "6", "7", "8", "9">>

RECURSIVE FmtNat(_)
FmtNat(n) ==
    IF n < 10 THEN <<Digits[n + 1]>>
    ELSE FmtNat(n \div 10) \o <<Digits[(n % 10) + 1]>>

\* the verb %d of fmt.Sprintf on an int32
FmtInt(n) == IF n < 0 THEN <<"-">> \o FmtNat(0 - n) ELSE FmtNat(n)

\* fmt.Sprintf("%s:%d", svc.Name, svc.Port)
EndPointKey(name, port) == name \o <<":">> \o FmtInt(port)

\* fmt.Sprintf("http://%s:%d", nodeIP, port)
EndPointURL(nodeIP, port) ==
    <<"h", "t", "t", "p", ":", "/", "/">> \o nodeIP \o <<":">> \o FmtInt(port)

StatusOK == "200 OK"

\* fmt.Errorf("for service %q got %q", e, respose.Status)
PingError(e, status) == [service |-> e, got |-> status]

(***************************************************************************)
(* Names used by the test table and by the cluster.                        *)
(***************************************************************************)
sWeb == <<"w", "e", "b">>
sDb == <<"d", "b">>
sSvc == <<"s", "v", "c">>
sWebPod == <<"w", "e", "b", "-", "a", "b", "c", "1", "2", "3">>
sWebCache == <<"w", "e", "b", "c", "a", "c", "h", "e", "-", "x", "y", "z">>
sDbPod == <<"d", "b", "-", "1">>
sNodeA == <<"1", "0", ".", "0", ".", "0", ".", "5">>
sNodeB == <<"1", "0", ".", "0", ".", "0", ".", "6">>

ServicePort(name, port) == [Name |-> name, Port |-> port]

testData(files, podStarted, nodePortServices) ==
    [InputFiles |-> files, PodStarted |-> podStarted,
     NodePortServices |-> nodePortServices]

\* the tables of test cases a run is started with
TestTables ==
    { << testData(1, <<sWeb>>, <<ServicePort(sSvc, 8080)>>),
         testData(2, <<sDb>>, <<ServicePort(sDb, 3306)>>) >>,
      << testData(2, <<sWeb, sDb>>,
                  <<ServicePort(sSvc, 8080), ServicePort(sDb, 3306)>>) >>,
      << testData(0, <<>>, <<>>) >>,
      << testData(1, <<>>,
                  <<ServicePort(sSvc, 8080), ServicePort(sSvc, 8080)>>) >> }

(***************************************************************************)
(* What the cluster may answer.                                            *)
(***************************************************************************)
Pod(name, phase) == [Name |-> name, Phase |-> phase]

PodListings ==
    { <<>>,
      <<Pod(sWebPod, "Running")>>,
      <<Pod(sWebPod, "Pending"), Pod(sDbPod, "Running")>>,
      <<Pod(sWebCache, "Running"), Pod(sDbPod, "Running")>> }

Node(addresses) == [Addresses |-> addresses]

NodeListings ==
    { <<>>,
      <<Node(<<>>)>>,
      <<Node(<<sNodeA, sNodeB>>), Node(<<sNodeB>>)>> }

SvcPort(port, nodePort) == [Port |-> port, NodePort |-> nodePort]

Service(name, ports) == [Name |-> name, Ports |-> ports]

ServiceListings ==
    { <<>>,
      <<Service(sSvc, <<SvcPort(8080, 30080)>>)>>,
      <<Service(sSvc, <<SvcPort(9090, 30090)>>),
        Service(sDb, <<SvcPort(3306, 30306)>>)>>,
      <<Service(sSvc, <<SvcPort(9090, 30090), SvcPort(8080, 30080)>>),
        Service(sSvc, <<SvcPort(8080, 30082), SvcPort(8080, 30081)>>),
        Service(sDb, <<SvcPort(3306, 30306)>>)>> }

\* respose.Status of a probe that got a response
Statuses == {StatusOK, "201 Created", "204 No Content"}


(***************************************************************************)
(* getEndPoints: the scan of the declared ServicePorts against the live    *)
(* services, in the order of the three nested loops.                       *)
(***************************************************************************)
EmptyMap == << >>

\* variant of MapPut: a key that has a value keeps it
MapPutKeepFirst(m, k, v) ==
    [x \in (DOMAIN m) \cup {k} |-> IF x \in DOMAIN m THEN m[x] ELSE v]

\* endpoint[k] = v
MapPut(m, k, v) == [x \in (DOMAIN m) \cup {k} |-> IF x = k THEN v ELSE m[x]]

\* delete(m, k)
MapDelete(m, k) == [x \in (DOMAIN m) \ {k} |-> m[x]]

\* s.Name == svc.Name
NameMatches(s, svc) == s.Name = svc.Name

\* variant of PortMatches: the port of the live service is not compared
PortMatchesAny(p, svc) == TRUE

\* p.Port == svc.Port
PortMatches(p, svc) == p.Port = svc.Port

RECURSIVE ScanPorts(_, _, _, _)
ScanPorts(endpoint, ports, svc, nodeIP) ==
    IF ports = <<>> THEN endpoint
    ELSE LET p == Head(ports)
             e1 == IF PortMatches(p, svc)
                   THEN MapPut(endpoint, EndPointKey(svc.Name, svc.Port),
                               EndPointURL(nodeIP, p.NodePort))
                   ELSE endpoint
         IN  ScanPorts(e1, Tail(ports), svc, nodeIP)

\* variant of ScanServices: only the first live service is looked at
ScanServicesFirstOnly(endpoint, items, svc, nodeIP) ==
    IF items = <<>> THEN endpoint
    ELSE IF NameMatches(Head(items), svc)
    THEN ScanPorts(endpoint, Head(items).Ports, svc, nodeIP)
    ELSE endpoint

RECURSIVE ScanServices(_, _, _, _)
ScanServices(endpoint, items, svc, nodeIP) ==
    IF items = <<>> THEN endpoint
    ELSE LET s == Head(items)
             e1 == IF NameMatches(s, svc)
                   THEN ScanPorts(endpoint, s.Ports, svc, nodeIP)
                   ELSE endpoint
         IN  ScanServices(e1, Tail(items), svc, nodeIP)

RECURSIVE ScanDeclared(_, _, _, _)
ScanDeclared(endpoint, svcs, items, nodeIP) ==
    IF svcs = <<>> THEN endpoint
    ELSE ScanDeclared(ScanServices(endpoint, items, Head(svcs), nodeIP),
                      Tail(svcs), items, nodeIP)

\* node.Items[0].Status.Addresses[0].Address is out of range
NodeIPPanics(items) == Len(items) = 0 \/ Len(items[1].Addresses) = 0

\* variant of NodeIP: the last address of the first node
NodeIPLastAddress(items) == items[1].Addresses[Len(items[1].Addresses)]

NodeIP(items) == items[1].Addresses[1]

(***************************************************************************)
(* PodsStarted: what one listing leaves of the remaining set.              *)
(***************************************************************************)
\* variant of PodIsUp: the pod's name is compared for equality
PodIsUpExactName(p, k) == p.Name = k /\ p.Phase = "Running"

\* variant of PodIsUp: the pod's phase is not looked at
PodIsUpAnyPhase(p, k) == Contains(p.Name, k)

\* strings.Contains(p.Name, k) && p.Status.Phase == v1.PodRunning
PodIsUp(p, k) == Contains(p.Name, k) /\ p.Phase = "Running"

StillDown(remaining, items) ==
    {k \in remaining : ~ \E x \in DOMAIN items : PodIsUp(items[x], k)}

\* PodsStarted that took a failed list call for an empty listing
PollOutcomeErrorIgnored(r, left) ==
    IF left = {} THEN "done" ELSE "sleep"

\* variant of PollOutcome: the loop gives up after a turn that left
\* something in the remaining set
PollOutcomeGivesUp(r, left) ==
    IF r.err THEN "error"
    ELSE IF left = {} THEN "done"
    ELSE "error"

\* how a turn of the loop ends: return the list error, break on an empty
\* remaining set, sleep and list again otherwise
PollOutcome(r, left) ==
    IF r.err THEN "error"
    ELSE IF left = {} THEN "done"
    ELSE "sleep"

(***************************************************************************)
(* pingEndPoints: what a probe's result does to the entry.                 *)
(***************************************************************************)
\* variant of ProbeOutcome: a response with another status is retried like
\* a failed request
ProbeOutcomeRetryStatus(r) ==
    IF r.err THEN "retry"
    ELSE IF r.Status = StatusOK THEN "remove"
    ELSE "retry"

\* variant of ProbeOutcome: a failed request ends the poll like a response
\* with another status
ProbeOutcomeErrorAborts(r) ==
    IF r.err THEN "abort"
    ELSE IF r.Status = StatusOK THEN "remove"
    ELSE "abort"

\* variant of ProbeOutcome: every 2xx status counts as healthy
ProbeOutcomeAny2xx(r) ==
    IF r.err THEN "retry"
    ELSE IF r.Status \in {StatusOK, "201 Created", "204 No Content"}
    THEN "remove"
    ELSE "abort"

\* variant of ProbeOutcome: a 200 OK answer does not remove the entry
ProbeOutcomeNeverRemoves(r) ==
    IF r.err THEN "retry"
    ELSE IF r.Status = StatusOK THEN "retry"
    ELSE "abort"

ProbeOutcome(r) ==
    IF r.err THEN "retry"
    ELSE IF r.Status = StatusOK THEN "remove"
    ELSE "abort"

(***************************************************************************)
(* Results of the calls to the environment.                                *)
(***************************************************************************)
ListResults(listings) ==
    {[err |-> TRUE, Items |-> <<>>]} \cup
    {[err |-> FALSE, Items |-> l] : l \in listings}

Responses ==
    {[err |-> TRUE, Status |-> ""]} \cup
    {[err |-> FALSE, Status |-> s] : s \in Statuses}

NoResponse == [e |-> <<>>, err |-> FALSE, Status |-> ""]

NoError == [service |-> <<>>, got |-> ""]

NoList == [err |-> FALSE, Items |-> <<>>]

\* RunKapp has not been called
KappIdle == [pc |-> "idle"]

\* RunKubeCreate has not been called
KubeIdle == [pc |-> "idle"]

\* the HTTP targets answer anything
NetAny == [mode |-> "any", bad |-> <<>>]

\* the target of endpoint key bad fails every request and no target answers
\* with a status other than 200 OK
NetDown(bad) == [mode |-> "down", bad |-> bad]

\* every target answers 200 OK
NetHealthy == [mode |-> "healthy", bad |-> <<>>]

(***************************************************************************)
(* State.                                                                  *)
(***************************************************************************)
VARIABLES
    variant,      \* "seq": RunTests of main.go, "conc": RunTests with one
                  \* goroutine per test, "integ": Test_Integration
    tests,        \* the table of test cases
    mainPc,       \* position of the orchestrating goroutine
    next,         \* index of the test case the range loop is at
    wg,           \* counter of the sync.WaitGroup
    runResult,    \* what RunTests returned / how Test_Integration ended
    crashed,      \* the process died of a run-time panic
    pc,           \* position of each test case's pipeline
    result,       \* per test case and step: "none", "ok", "err", "panic"
    trace,        \* per test case: the steps in the order they were started
    accessed,     \* the reads and writes made so far of the variables that
                  \* outlive a statement: who, which variable, read or write
    podUp,        \* PodsStarted: the remaining set
    pods,         \* PodsStarted: the last list call's result (pods, err)
    listCalls,    \* PodsStarted: list calls issued
    podSleeps,    \* PodsStarted: sleeps taken
    matched,      \* PodsStarted: the expected substrings some listing of the
                  \* call had a Running pod for
    node,         \* getEndPoints: the nodes listed
    runningSvcs,  \* getEndPoints: the live services listed
    epErr,        \* getEndPoints: the list call whose error was returned
    endPoints,    \* the endpoint map, built by getEndPoints, drained by ping
    pingTodo,     \* pingEndPoints: keys the current range pass has yet to visit
    respose,      \* pingEndPoints: the last probe and its response
    httpCount,    \* pingEndPoints: HTTP requests issued
    pingSleeps,   \* pingEndPoints: sleeps taken
    pingErr,      \* pingEndPoints: the error returned
    deleteCalls,  \* namespace delete calls issued per test case
    kapp,         \* RunKapp on its own: the call, the process, the result
    kube,         \* RunKubeCreate on its own: the goroutines, the pipes and
                  \* the kubectl process
    net           \* what the HTTP targets answer from now on

cfgVars == <<variant, tests>>
mainVars == <<mainPc, next, wg, runResult, crashed>>
podVars == <<podUp, pods, listCalls, podSleeps, matched>>
epVars == <<node, runningSvcs, epErr, endPoints>>
pingVars == <<pingTodo, respose, httpCount, pingSleeps, pingErr>>
\* the tools and the network taken on their own: constant while the
\* orchestrators run
sideVars == <<kapp, kube, net>>
vars == <<cfgVars, mainVars, pc, result, trace, accessed, podVars, epVars, pingVars,
          deleteCalls, sideVars>>

Variants == {"seq", "conc", "integ"}

\* the pipeline of one test case, in the order of the source
StepOrder == <<"createNS", "RunKapp", "RunKubeCreate", "PodsStarted",
               "getEndPoints", "pingEndPoints">>

Steps == Range(StepOrder) \cup {"delete"}

Cases == DOMAIN tests

(***************************************************************************)
(* Who reads and writes which variable.  0 is the goroutine of main and of *)
(* Test_Integration, i >= 1 the goroutine of test case i.  A variable is   *)
(* its name and the test case it was created for, 0 for the globals and    *)
(* for the variables of the orchestrator.                                  *)
(***************************************************************************)
\* goroutine who reads the variables reads and writes the variables writes,
\* all of them created for test case of; live are the test cases whose
\* goroutine exists at that moment (kept for the accesses of goroutine 0)
Accesses(who, live, reads, writes, of, globals) ==
    {[who |-> who, var |-> v, of |-> of, kind |-> "r", live |-> live] :
        v \in reads} \cup
    {[who |-> who, var |-> v, of |-> of, kind |-> "w", live |-> live] :
        v \in writes} \cup
    {[who |-> who, var |-> v, of |-> 0, kind |-> "r", live |-> live] :
        v \in globals}

\* KappLoc, err = FindKapp(); KubectlLoc, err = FindKubectl(), before any
\* test case is taken up
MainSetup ==
    Accesses(0, {}, {}, {"KappLoc", "KubectlLoc", "clientset"}, 0, {})

\* variant of TestRecord: the closure reads the range variable of the loop
TestRecordShared(i) == 0

\* the test-case record a goroutine works on: the parameter of the go
\* statement, the copy "test := test" of Test_Integration
TestRecord(i) == i

\* the range loop assigns its variable and hands the record over to the
\* test case: the argument of the go statement, the copy made before t.Run
SpawnAccesses(i) ==
    LET live == {j \in Cases : pc[j] # "idle"}
    IN  Accesses(0, live, {"tests"}, {"test"}, 0, {}) \cup
        Accesses(0, live, {"test"}, {}, 0, {}) \cup
        Accesses(0, live, {}, {"test"}, i, {})

\* what a step of the pipeline of test case i reads and writes
StepAccesses(i, step) ==
    Accesses(i, {}, {"test"}, {}, TestRecord(i), {}) \cup
    CASE step = "createNS" -> Accesses(i, {}, {}, {}, i, {"clientset"})
      [] step = "RunKapp" ->
            Accesses(i, {}, {}, {"convertedOutput"}, i, {"KappLoc"})
      [] step = "RunKubeCreate" ->
            Accesses(i, {}, {"convertedOutput"}, {}, i, {"KubectlLoc"})
      [] step = "PodsStarted" ->
            Accesses(i, {}, {"podUp"}, {"podUp"}, i, {"clientset"})
      [] step = "getEndPoints" ->
            Accesses(i, {}, {}, {"endPoints"}, i, {"clientset"})
      [] step = "pingEndPoints" ->
            Accesses(i, {}, {"endPoints"}, {"endPoints"}, i, {})
      [] step = "delete" -> Accesses(i, {}, {}, {}, i, {"clientset"})

\* the orchestrator before RunTests / Test_Integration is entered
InitRun ==
    /\ mainPc = "start"
    /\ next = 1
    /\ wg = 0
    /\ runResult = "none"
    /\ crashed = FALSE
    /\ pc = [i \in DOMAIN tests |-> "idle"]
    /\ result = [i \in DOMAIN tests |-> [s \in Steps |-> "none"]]
    /\ trace = [i \in DOMAIN tests |-> <<>>]
    /\ accessed = MainSetup
    /\ podUp = [i \in DOMAIN tests |-> {}]
    /\ pods = [i \in DOMAIN tests |-> NoList]
    /\ listCalls = [i \in DOMAIN tests |-> 0]
    /\ podSleeps = [i \in DOMAIN tests |-> 0]
    /\ matched = [i \in DOMAIN tests |-> {}]
    /\ node = [i \in DOMAIN tests |-> <<>>]
    /\ runningSvcs = [i \in DOMAIN tests |-> <<>>]
    /\ epErr = [i \in DOMAIN tests |-> "nil"]
    /\ endPoints = [i \in DOMAIN tests |-> EmptyMap]
    /\ pingTodo = [i \in DOMAIN tests |-> {}]
    /\ respose = [i \in DOMAIN tests |-> NoResponse]
    /\ httpCount = [i \in DOMAIN tests |-> 0]
    /\ pingSleeps = [i \in DOMAIN tests |-> 0]
    /\ pingErr = [i \in DOMAIN tests |-> NoError]
    /\ deleteCalls = [i \in DOMAIN tests |-> 0]

Init ==
    /\ variant \in Variants
    /\ tests \in TestTables
    /\ InitRun
    /\ kapp = KappIdle
    /\ kube = KubeIdle
    /\ net = NetAny

(***************************************************************************)
(* The orchestrating goroutine.                                            *)
(***************************************************************************)
\* variant of WgAdd: wg.Add(1) in front of a loop that starts n goroutines
WgAddOne(v, n) == IF v = "conc" THEN 1 ELSE 0

\* wg.Add(len(tests))
WgAdd(v, n) == IF v = "conc" THEN n ELSE 0

\* entry of RunTests / Test_Integration, up to the range loop
Enter ==
    /\ mainPc = "start"
    /\ mainPc' = "loop"
    /\ wg' = WgAdd(variant, Len(tests))
    /\ UNCHANGED <<cfgVars, sideVars, next, runResult, crashed, pc, result, trace, accessed,
                   podVars, epVars, pingVars, deleteCalls>>

\* variant of SeqStart: the next loop body begins while the delete call of
\* the test case before it is still to be made
SeqStartEager ==
    /\ variant = "seq" /\ mainPc = "loop" /\ ~crashed
    /\ \E i \in Cases :
          /\ pc[i] = "idle"
          /\ i = next \/ (i = next + 1 /\ pc[next] = "delete")
          /\ pc' = [pc EXCEPT ![i] = "createNS"]
          /\ accessed' = accessed \cup SpawnAccesses(i)
    /\ UNCHANGED <<cfgVars, sideVars, mainVars, result, trace, podVars, epVars,
                   pingVars, deleteCalls>>

\* main.go: the loop body begins for the next test case
SeqStart ==
    /\ variant = "seq" /\ mainPc = "loop" /\ ~crashed
    /\ next \in Cases /\ pc[next] = "idle"
    /\ pc' = [pc EXCEPT ![next] = "createNS"]
    /\ accessed' = accessed \cup SpawnAccesses(next)
    /\ UNCHANGED <<cfgVars, sideVars, mainVars, result, trace, podVars, epVars,
                   pingVars, deleteCalls>>

\* main.go: the loop is over, return nil
SeqReturn ==
    /\ variant = "seq" /\ mainPc = "loop" /\ ~crashed
    /\ next = Len(tests) + 1
    /\ mainPc' = "returned"
    /\ runResult' = "nil"
    /\ UNCHANGED <<cfgVars, sideVars, next, wg, crashed, pc, result, trace, accessed, podVars,
                   epVars, pingVars, deleteCalls>>

\* go func(test testData) {...}(test)
ConcSpawn ==
    /\ variant = "conc" /\ mainPc = "loop" /\ ~crashed
    /\ next \in Cases
    /\ pc' = [pc EXCEPT ![next] = "createNS"]
    /\ next' = next + 1
    /\ accessed' = accessed \cup SpawnAccesses(next)
    /\ UNCHANGED <<cfgVars, sideVars, mainPc, wg, runResult, crashed, result, trace,
                   podVars, epVars, pingVars, deleteCalls>>

\* wg.Wait() lets the caller through
WaitReturns(counter) == counter = 0

\* wg.Wait(); return nil
ConcWait ==
    /\ variant = "conc" /\ mainPc = "loop" /\ ~crashed
    /\ next = Len(tests) + 1
    /\ WaitReturns(wg)
    /\ mainPc' = "returned"
    /\ runResult' = "nil"
    /\ UNCHANGED <<cfgVars, sideVars, next, wg, crashed, pc, result, trace, accessed, podVars,
                   epVars, pingVars, deleteCalls>>

\* main(): log.Fatalln(err) when RunTests returned an error
MainExit ==
    /\ variant \in {"seq", "conc"} /\ mainPc = "returned" /\ ~crashed
    /\ mainPc' = IF runResult = "nil" THEN "exit0" ELSE "fatal"
    /\ UNCHANGED <<cfgVars, sideVars, next, wg, runResult, crashed, pc, result, trace, accessed,
                   podVars, epVars, pingVars, deleteCalls>>

\* t.Run(test.TestName, ...): the subtest runs up to t.Parallel() and pauses
IntegRun ==
    /\ variant = "integ" /\ mainPc = "loop" /\ ~crashed
    /\ next \in Cases
    /\ pc' = [pc EXCEPT ![next] = "paused"]
    /\ next' = next + 1
    /\ accessed' = accessed \cup SpawnAccesses(next)
    /\ UNCHANGED <<cfgVars, sideVars, mainPc, wg, runResult, crashed, result, trace,
                   podVars, epVars, pingVars, deleteCalls>>

\* Test_Integration's body returns: the paused parallel subtests resume
IntegRelease ==
    /\ variant = "integ" /\ mainPc = "loop" /\ ~crashed
    /\ next = Len(tests) + 1
    /\ mainPc' = "wait"
    /\ pc' = [i \in Cases |-> "createNS"]
    /\ UNCHANGED <<cfgVars, sideVars, next, wg, runResult, crashed, result, trace, accessed,
                   podVars, epVars, pingVars, deleteCalls>>

\* t.Fatalf was called in the subtest
SubtestFailed(i) == \E s \in Range(StepOrder) : result[i][s] = "err"

\* every subtest is over: the test ends
IntegFinish ==
    /\ variant = "integ" /\ mainPc = "wait" /\ ~crashed
    /\ \A i \in Cases : pc[i] = "done"
    /\ mainPc' = "returned"
    /\ runResult' = IF \E i \in Cases : SubtestFailed(i) THEN "FAIL" ELSE "PASS"
    /\ UNCHANGED <<cfgVars, sideVars, next, wg, crashed, pc, result, trace, accessed, podVars,
                   epVars, pingVars, deleteCalls>>

(***************************************************************************)
(* How a step of a test case's pipeline ends.                              *)
(***************************************************************************)
\* the step is entered: it joins the trace the first time
Started(i, step) ==
    /\ trace' = [trace EXCEPT ![i] =
                    IF step \in Range(@) THEN @ ELSE Append(@, step)]
    /\ accessed' = accessed \cup StepAccesses(i, step)

\* the step returned nil: the pipeline goes on with nxt
Proceed(i, step, nxt) ==
    /\ pc' = [pc EXCEPT ![i] = nxt]
    /\ result' = [result EXCEPT ![i][step] = "ok"]
    /\ UNCHANGED mainVars

\* variant of AfterError: the error of a step is not checked and the pipeline
\* runs on with the step that follows
AfterErrorUnchecked(v, step) ==
    IF step = "pingEndPoints" THEN "delete"
    ELSE StepOrder[(CHOOSE k \in DOMAIN StepOrder : StepOrder[k] = step) + 1]

\* where the pipeline goes when a step returned an error: return err
\* (main.go), log and return (goroutine), t.Fatalf with the deferred
\* deleteNamespace once it is registered (Test_Integration)
AfterError(v, step) ==
    IF v = "integ" /\ step # "createNS" THEN "delete" ELSE "done"

\* variant of AbortsRun: the goroutines return the error to the run as well
AbortsRunAlways(v) == TRUE

\* variant of AbortsRun: the sequential loop logs the error and goes on
AbortsRunNever(v) == FALSE

\* the error of a step is returned by RunTests (main.go) rather than logged
AbortsRun(v) == v = "seq"

\* defer wg.Done()
WgDone(v, counter) == IF v = "conc" THEN counter - 1 ELSE counter

\* the step returned an error
Fail(i, step) ==
    /\ pc' = [pc EXCEPT ![i] = AfterError(variant, step)]
    /\ result' = [result EXCEPT ![i][step] = "err"]
    /\ wg' = WgDone(variant, wg)
    /\ mainPc' = IF AbortsRun(variant) THEN "returned" ELSE mainPc
    /\ runResult' = IF AbortsRun(variant) THEN "err" ELSE runResult
    /\ UNCHANGED <<next, crashed>>

\* variant of Panic: the panic ends the goroutine of the test case only
PanicConfined(i, step) ==
    /\ pc' = [pc EXCEPT ![i] = IF variant = "integ" THEN "delete" ELSE "done"]
    /\ result' = [result EXCEPT ![i][step] = "panic"]
    /\ wg' = WgDone(variant, wg)
    /\ crashed' = FALSE
    /\ UNCHANGED <<mainPc, next, runResult>>

\* the step panicked: deferred calls run, then the process dies
Panic(i, step) ==
    /\ pc' = [pc EXCEPT ![i] = IF variant = "integ" THEN "delete" ELSE "done"]
    /\ result' = [result EXCEPT ![i][step] = "panic"]
    /\ wg' = WgDone(variant, wg)
    /\ crashed' = (variant # "integ")
    /\ UNCHANGED <<mainPc, next, runResult>>

(***************************************************************************)
(* The steps.                                                              *)
(***************************************************************************)
\* createNS(clientset, test.Namespace)
CreateNS(i) ==
    /\ pc[i] = "createNS" /\ ~crashed
    /\ Started(i, "createNS")
    /\ \E err \in BOOLEAN :
          IF err THEN Fail(i, "createNS")
          ELSE Proceed(i, "createNS", "RunKapp")
    /\ UNCHANGED <<cfgVars, sideVars, podVars, epVars, pingVars, deleteCalls>>

\* RunKapp(test.InputFiles)
RunKapp(i) ==
    /\ pc[i] = "RunKapp" /\ ~crashed
    /\ Started(i, "RunKapp")
    /\ \E err \in BOOLEAN :
          IF err THEN Fail(i, "RunKapp")
          ELSE Proceed(i, "RunKapp", "RunKubeCreate")
    /\ UNCHANGED <<cfgVars, sideVars, podVars, epVars, pingVars, deleteCalls>>

\* RunKubeCreate(convertedOutput, test.Namespace)
RunKubeCreate(i) ==
    /\ pc[i] = "RunKubeCreate" /\ ~crashed
    /\ Started(i, "RunKubeCreate")
    /\ \E err \in BOOLEAN :
          IF err THEN Fail(i, "RunKubeCreate")
          ELSE Proceed(i, "RunKubeCreate", "PodsStarted")
    /\ UNCHANGED <<cfgVars, sideVars, podVars, epVars, pingVars, deleteCalls>>

\* variant of PodUpAtTurn: the map is built from podNames in every turn
PodUpRebuilt(i) == Range(tests[i].PodStarted)

\* the map podUp at the top of a turn of the loop: built from podNames
\* before the first turn, what the turn before left afterwards
PodUpAtTurn(i) ==
    IF listCalls[i] = 0 THEN Range(tests[i].PodStarted) ELSE podUp[i]

\* PodsStarted: one turn of the loop (the first one builds podUp)
PodsStartedPoll(i) ==
    /\ pc[i] = "PodsStarted" /\ ~crashed
    /\ listCalls[i] < MaxPolls
    /\ Started(i, "PodsStarted")
    /\ \E r \in ListResults(PodListings) :
          LET remaining == PodUpAtTurn(i)
              left == StillDown(remaining, r.Items)
          IN  /\ listCalls' = [listCalls EXCEPT ![i] = @ + 1]
              /\ matched' = [matched EXCEPT ![i] = @ \cup
                     {k \in Range(tests[i].PodStarted) :
                         \E x \in DOMAIN r.Items :
                             /\ r.Items[x].Phase = "Running"
                             /\ Contains(r.Items[x].Name, k)}]
              /\ pods' = [pods EXCEPT ![i] = r]
              /\ IF PollOutcome(r, left) = "error"
                 THEN /\ podUp' = [podUp EXCEPT ![i] = remaining]
                      /\ podSleeps' = podSleeps
                      /\ Fail(i, "PodsStarted")
                 ELSE /\ podUp' = [podUp EXCEPT ![i] = left]
                      /\ IF PollOutcome(r, left) = "done"
                         THEN /\ podSleeps' = podSleeps
                              /\ Proceed(i, "PodsStarted", "getEndPoints")
                         ELSE /\ podSleeps' = [podSleeps EXCEPT ![i] = @ + 1]
                              /\ UNCHANGED <<pc, result, mainVars>>
    /\ UNCHANGED <<cfgVars, sideVars, epVars, pingVars, deleteCalls>>

\* getEndPoints(clientset, test.Namespace, test.NodePortServices)
GetEndPoints(i) ==
    /\ pc[i] = "getEndPoints" /\ ~crashed
    /\ Started(i, "getEndPoints")
    /\ \E nd \in ListResults(NodeListings),
          svc \in ListResults(ServiceListings) :
          IF nd.err
          THEN /\ Fail(i, "getEndPoints")
               /\ epErr' = [epErr EXCEPT ![i] = "nodes"]
               /\ UNCHANGED <<node, runningSvcs, endPoints>>
          ELSE IF NodeIPPanics(nd.Items)
          THEN /\ Panic(i, "getEndPoints")
               /\ node' = [node EXCEPT ![i] = nd.Items]
               /\ UNCHANGED <<runningSvcs, epErr, endPoints>>
          ELSE IF svc.err
          THEN /\ Fail(i, "getEndPoints")
               /\ node' = [node EXCEPT ![i] = nd.Items]
               /\ epErr' = [epErr EXCEPT ![i] = "services"]
               /\ UNCHANGED <<runningSvcs, endPoints>>
          ELSE /\ node' = [node EXCEPT ![i] = nd.Items]
               /\ epErr' = epErr
               /\ runningSvcs' = [runningSvcs EXCEPT ![i] = svc.Items]
               /\ endPoints' = [endPoints EXCEPT ![i] =
                      ScanDeclared(EmptyMap, tests[i].NodePortServices,
                                   svc.Items, NodeIP(nd.Items))]
               /\ Proceed(i, "getEndPoints", "pingEndPoints")
    /\ UNCHANGED <<cfgVars, sideVars, podVars, pingVars, deleteCalls>>

\* variant of PingEmpty: the loop pauses before it looks at the map's size
PingEmptyPauses(i) ==
    /\ pc[i] = "pingEndPoints" /\ ~crashed
    /\ DOMAIN endPoints[i] = {}
    /\ Started(i, "pingEndPoints")
    /\ pingSleeps' = [pingSleeps EXCEPT ![i] = @ + 1]
    /\ Proceed(i, "pingEndPoints", "delete")
    /\ UNCHANGED <<cfgVars, sideVars, podVars, epVars, pingTodo, respose, httpCount,
                   pingErr, deleteCalls>>

\* variant of PingEmpty: a map without entries is an error
PingEmptyFails(i) ==
    /\ pc[i] = "pingEndPoints" /\ ~crashed
    /\ DOMAIN endPoints[i] = {}
    /\ Started(i, "pingEndPoints")
    /\ Fail(i, "pingEndPoints")
    /\ UNCHANGED <<cfgVars, sideVars, podVars, epVars, pingVars, deleteCalls>>

\* pingEndPoints on a map without entries: the range visits nothing
PingEmpty(i) ==
    /\ pc[i] = "pingEndPoints" /\ ~crashed
    /\ DOMAIN endPoints[i] = {}
    /\ Started(i, "pingEndPoints")
    /\ Proceed(i, "pingEndPoints", "delete")
    /\ UNCHANGED <<cfgVars, sideVars, podVars, epVars, pingVars, deleteCalls>>

\* what client.Get(u) may come back with for the endpoint of key e
NetAnswers(e) ==
    CASE net.mode = "any" -> Responses
      [] net.mode = "healthy" -> {[err |-> FALSE, Status |-> StatusOK]}
      [] net.mode = "down" ->
            IF e = net.bad THEN {[err |-> TRUE, Status |-> ""]}
            ELSE {r \in Responses : r.err \/ r.Status = StatusOK}

\* a counter of the model goes up to the bound and stays there
CountUp(n, bound) == IF n < bound THEN n + 1 ELSE n

\* pingEndPoints: one turn of the range loop, and the end of the pass when
\* the range is exhausted
ProbeTurn(i) ==
    /\ pc[i] = "pingEndPoints" /\ ~crashed
    /\ DOMAIN endPoints[i] # {}
    /\ Started(i, "pingEndPoints")
    /\ LET todo == IF "pingEndPoints" \in Range(trace[i])
                   THEN pingTodo[i] ELSE DOMAIN endPoints[i]
       IN \E e \in todo : \E r \in NetAnswers(e) :
          LET outcome == ProbeOutcome(r)
              ep1 == IF outcome = "remove"
                     THEN MapDelete(endPoints[i], e) ELSE endPoints[i]
              rest == todo \ {e}
          IN  /\ httpCount' = [httpCount EXCEPT ![i] = CountUp(@, MaxProbes)]
              /\ respose' = [respose EXCEPT ![i] =
                                [e |-> e, err |-> r.err, Status |-> r.Status]]
              /\ pingSleeps' = [pingSleeps EXCEPT ![i] =
                        IF outcome = "retry" THEN CountUp(@, MaxProbes) ELSE @]
              /\ endPoints' = [endPoints EXCEPT ![i] = ep1]
              /\ IF outcome = "abort"
                 THEN /\ pingErr' = [pingErr EXCEPT ![i] =
                                        PingError(e, r.Status)]
                      /\ pingTodo' = [pingTodo EXCEPT ![i] = todo]
                      /\ Fail(i, "pingEndPoints")
                 ELSE /\ pingErr' = pingErr
                      /\ pingTodo' = [pingTodo EXCEPT ![i] =
                             IF rest = {} THEN DOMAIN ep1 ELSE rest]
                      /\ IF rest = {} /\ DOMAIN ep1 = {}
                         THEN Proceed(i, "pingEndPoints", "delete")
                         ELSE UNCHANGED <<pc, result, mainVars>>
    /\ UNCHANGED <<cfgVars, sideVars, podVars, node, runningSvcs, epErr,
                   deleteCalls>>

\* a probe of pingEndPoints, as long as the model lets the call issue one
PingProbe(i) ==
    /\ httpCount[i] < MaxProbes
    /\ ProbeTurn(i)

\* clientset.CoreV1().Namespaces().Delete(test.Namespace, ...): the last
\* statement of the loop body (RunTests), the deferred deleteNamespace
\* (Test_Integration)
DeleteNamespace(i) ==
    /\ pc[i] = "delete" /\ ~crashed
    /\ Started(i, "delete")
    /\ deleteCalls' = [deleteCalls EXCEPT ![i] = @ + 1]
    /\ pc' = [pc EXCEPT ![i] = "done"]
    /\ \E err \in BOOLEAN :
          /\ result' = [result EXCEPT ![i]["delete"] =
                           IF err THEN "err" ELSE "ok"]
          /\ mainPc' = IF AbortsRun(variant) /\ err THEN "returned" ELSE mainPc
          /\ runResult' = IF AbortsRun(variant) /\ err THEN "err" ELSE runResult
          /\ next' = IF variant = "seq" /\ ~err THEN next + 1 ELSE next
    /\ wg' = WgDone(variant, wg)
    /\ crashed' = (variant = "integ" /\ result[i]["getEndPoints"] = "panic")
    /\ UNCHANGED <<cfgVars, sideVars, podVars, epVars, pingVars>>

\* a step of the pipeline of test case i
TaskStep(i) ==
    \/ CreateNS(i)
    \/ RunKapp(i)
    \/ RunKubeCreate(i)
    \/ PodsStartedPoll(i)
    \/ GetEndPoints(i)
    \/ PingEmpty(i)
    \/ PingProbe(i)
    \/ DeleteNamespace(i)

Next ==
    \/ Enter
    \/ SeqStart
    \/ SeqReturn
    \/ ConcSpawn
    \/ ConcWait
    \/ MainExit
    \/ IntegRun
    \/ IntegRelease
    \/ IntegFinish
    \/ \E i \in Cases : CreateNS(i)
    \/ \E i \in Cases : RunKapp(i)
    \/ \E i \in Cases : RunKubeCreate(i)
    \/ \E i \in Cases : PodsStartedPoll(i)
    \/ \E i \in Cases : GetEndPoints(i)
    \/ \E i \in Cases : PingEmpty(i)
    \/ \E i \in Cases : PingProbe(i)
    \/ \E i \in Cases : DeleteNamespace(i)

Spec == Init /\ [][Next]_vars

(***************************************************************************)
(* Properties.                                                             *)
(***************************************************************************)
\* the pipeline steps of test case i in the order they were started
Pipeline(i) == SelectSeq(trace[i], LAMBDA s : s # "delete")

\* a pipeline step of test case i returned an error or panicked
StepFailed(i) ==
    \E s \in Range(StepOrder) : result[i][s] \in {"err", "panic"}

\* every pipeline step of test case i returned nil
CaseSucceeded(i) == \A s \in Range(StepOrder) : result[i][s] = "ok"

\* C1: in every orchestrator, a test case that was started and has ended
\* has had its namespace delete call issued exactly once, whichever step
\* failed or none.
C1_DeleteOncePerCase ==
    \A i \in Cases :
        (pc[i] = "done" /\ trace[i] # <<>>) => deleteCalls[i] = 1

C2_OrderInv ==
    \A i \in Cases :
        /\ Pipeline(i) = SubSeq(StepOrder, 1, Len(Pipeline(i)))
        /\ \A k \in 1..(Len(Pipeline(i)) - 1) : result[i][Pipeline(i)[k]] = "ok"
        /\ "getEndPoints" \in Range(trace[i]) =>
              /\ result[i]["PodsStarted"] = "ok"
              /\ listCalls[i] >= 1
              /\ podUp[i] = {}
        /\ httpCount[i] > 0 => result[i]["getEndPoints"] = "ok"

C2_OrderStep ==
    \A i \in Cases :
        /\ listCalls'[i] # listCalls[i] => "getEndPoints" \notin Range(trace'[i])
        /\ httpCount'[i] # httpCount[i] => result[i]["getEndPoints"] = "ok"
        /\ StepFailed(i) =>
              /\ Pipeline(i)' = Pipeline(i)
              /\ \A s \in Range(StepOrder) : result'[i][s] = result[i][s]
              /\ listCalls'[i] = listCalls[i]
              /\ httpCount'[i] = httpCount[i]
              /\ endPoints'[i] = endPoints[i]

\* C2: the steps of a test case are started in the order createNS, RunKapp,
\* RunKubeCreate, PodsStarted, getEndPoints, pingEndPoints, each only after
\* the one before returned nil: the remaining set is empty before the
\* endpoints are resolved, the resolution has returned before the first
\* probe, and after a failed step no pipeline step runs.
C2_StepsInOrder == [] C2_OrderInv /\ [][C2_OrderStep]_vars

\* a whole pipeline ran, and another test case stopped at a failed step
C2_Witness ==
    \E i, j \in Cases :
        /\ Pipeline(i) = StepOrder /\ CaseSucceeded(i)
        /\ result[j]["PodsStarted"] = "err" /\ pc[j] = "done"

C3_AbortStep ==
    \A i \in Cases :
        /\ (/\ httpCount'[i] # httpCount[i]
            /\ ~ respose'[i].err
            /\ respose'[i].Status # "200 OK") =>
              /\ result'[i]["pingEndPoints"] = "err"
              /\ pc'[i] # "pingEndPoints"
              /\ respose'[i].e \in DOMAIN endPoints[i]
              /\ pingErr'[i].service = respose'[i].e
              /\ pingErr'[i].got = respose'[i].Status
        /\ result[i]["pingEndPoints"] = "err" => httpCount'[i] = httpCount[i]

\* C3: a probe answered with a status other than "200 OK" makes
\* pingEndPoints return, in that very step, an error that carries the key
\* of the probed endpoint and the status received, and no request is issued
\* by that call afterwards.
C3_NonOKAborts == [][C3_AbortStep]_vars

\* the poll was aborted with a second endpoint still in the map
C3_Witness ==
    \E i \in Cases :
        /\ result[i]["pingEndPoints"] = "err"
        /\ pingErr[i].got = "201 Created"
        /\ Cardinality(DOMAIN endPoints[i]) = 2
        /\ pc[i] = "done"

\* test case i is inside its pipeline and the model lets it take a step
CanRun(i) ==
    /\ pc[i] \in Steps
    /\ pc[i] = "PodsStarted" => listCalls[i] < MaxPolls
    /\ (pc[i] = "pingEndPoints" /\ DOMAIN endPoints[i] # {}) =>
          httpCount[i] < MaxProbes

\* a step of test case i returns an error in this transition
ErrorReturned(i) ==
    \E s \in Steps : result[i][s] # "err" /\ result'[i][s] = "err"

C4_IsolationInv ==
    variant = "conc" =>
        /\ runResult \in {"none", "nil"}
        /\ mainPc # "fatal"
        /\ ~crashed => \A j \in Cases : CanRun(j) => ENABLED TaskStep(j)

C4_IsolationStep ==
    variant = "conc" =>
        \A i \in Cases :
            ErrorReturned(i) =>
                /\ \A j \in Cases \ {i} :
                      /\ pc'[j] = pc[j]
                      /\ result'[j] = result[j]
                      /\ trace'[j] = trace[j]
                /\ UNCHANGED <<mainPc, runResult, crashed, next>>

C5_AbortInv ==
    variant = "seq" =>
        /\ \A i \in Cases : \A s \in Steps :
              result[i][s] = "err" =>
                  /\ runResult = "err"
                  /\ mainPc \in {"returned", "fatal"}
                  /\ pc[i] = "done"
                  /\ trace[i][Len(trace[i])] = s
                  /\ \A j \in Cases :
                        j > i => /\ pc[j] = "idle"
                                 /\ trace[j] = <<>>
                                 /\ deleteCalls[j] = 0
        /\ (mainPc = "returned" /\ ~crashed) => ENABLED MainExit

C5_AbortStep ==
    (variant = "seq" /\ runResult = "err") =>
        /\ mainPc' = "fatal"
        /\ UNCHANGED <<pc, result, trace, deleteCalls, listCalls, httpCount>>

\* C5: in the sequential RunTests the first error of a step makes RunTests
\* return an error in that step: nothing more of that test case runs, no
\* later test case is started, and the only step left is main's
\* log.Fatalln.
C5_SequentialAborts == [] C5_AbortInv /\ [][C5_AbortStep]_vars

\* the first test case failed while waiting for its pods, main aborted, the
\* second test case never started
C5_Witness ==
    /\ variant = "seq" /\ mainPc = "fatal"
    /\ Len(tests) = 2
    /\ result[1]["PodsStarted"] = "err"
    /\ pc[2] = "idle"

C6_JoinInv ==
    variant = "conc" =>
        /\ \A i \in Cases : (pc[i] # "idle") <=> (i < next)
        /\ mainPc # "start" =>
              wg = Cardinality({i \in Cases : pc[i] # "done"})
        /\ mainPc \in {"returned", "exit0", "fatal"} =>
              \A i \in Cases : pc[i] = "done"
        /\ (~crashed /\ mainPc = "loop" /\ \A i \in Cases : pc[i] = "done") =>
              ENABLED ConcWait

C6_JoinStep ==
    variant = "conc" =>
        \A i \in Cases :
            /\ pc[i] = "done" => pc'[i] = "done"
            /\ (pc[i] # "done" /\ pc'[i] = "done") => wg' = wg - 1
            /\ pc[i] \notin {"idle", "createNS"} => pc'[i] # "createNS"

\* C6: the concurrent RunTests starts one task per test case, in the order
\* of the table; the WaitGroup counter is at every moment the number of
\* test cases whose task has not ended, each task lowering it once when it
\* ends on whatever path; RunTests has returned only if every task has
\* ended, and once every task has ended wg.Wait lets RunTests return.
C6_JoinsAllTasks == [] C6_JoinInv /\ [][C6_JoinStep]_vars

\* RunTests returned after a task that ended on an early error return and a
\* task that ran to its end
C6_Witness ==
    /\ variant = "conc" /\ mainPc = "returned"
    /\ \E i, j \in Cases :
          /\ result[i]["RunKapp"] = "err"
          /\ CaseSucceeded(j) /\ result[j]["delete"] = "ok"

\* the decimal number written by a string of digits
DigitValue(c) == CHOOSE d \in 0..9 : Digits[d + 1] = c

RECURSIVE ParseNat(_)
ParseNat(str) ==
    IF str = <<>> THEN 0
    ELSE 10 * ParseNat(SubSeq(str, 1, Len(str) - 1)) + DigitValue(str[Len(str)])

LastColon(str) ==
    CHOOSE k \in DOMAIN str :
        str[k] = ":" /\ \A m \in (k + 1)..Len(str) : str[m] # ":"

BeforeLastColon(str) == SubSeq(str, 1, LastColon(str) - 1)

AfterLastColon(str) == SubSeq(str, LastColon(str) + 1, Len(str))

\* C7: every entry of the endpoint map has the key "name:port" of a
\* declared ServicePort, and the services listed for that call contain a
\* service of that name with a port entry of that port whose node port is
\* the port of the entry's URL.
C7_NoFabricatedEndpoint ==
    \A i \in Cases : \A k \in DOMAIN endPoints[i] :
        \E x \in DOMAIN tests[i].NodePortServices :
            LET d == tests[i].NodePortServices[x]
            IN  /\ BeforeLastColon(k) = d.Name
                /\ ParseNat(AfterLastColon(k)) = d.Port
                /\ \E y \in DOMAIN runningSvcs[i] :
                      /\ runningSvcs[i][y].Name = d.Name
                      /\ \E z \in DOMAIN runningSvcs[i][y].Ports :
                            LET p == runningSvcs[i][y].Ports[z]
                            IN  /\ p.Port = d.Port
                                /\ ParseNat(AfterLastColon(endPoints[i][k]))
                                      = p.NodePort

\* two ServicePorts are declared, the listing has a service of the first
\* name without the declared port, and only the second one got an entry
C7_Witness ==
    \E i \in Cases :
        /\ Len(tests[i].NodePortServices) = 2
        /\ result[i]["getEndPoints"] = "ok"
        /\ httpCount[i] = 0
        /\ Cardinality(DOMAIN endPoints[i]) = 1
        /\ \E y \in DOMAIN runningSvcs[i] : runningSvcs[i][y].Name = sSvc

C8_EmptyInv ==
    \A i \in Cases :
        (pc[i] = "pingEndPoints" /\ DOMAIN endPoints[i] = {}) =>
            /\ httpCount[i] = 0
            /\ pingSleeps[i] = 0
            /\ ~crashed => ENABLED PingEmpty(i)

C8_EmptyStep ==
    \A i \in Cases :
        (/\ pc[i] = "pingEndPoints"
         /\ DOMAIN endPoints[i] = {}
         /\ <<pc[i], result[i], trace[i], httpCount[i], pingSleeps[i]>>' #
                <<pc[i], result[i], trace[i], httpCount[i], pingSleeps[i]>>) =>
            /\ result'[i]["pingEndPoints"] = "ok"
            /\ pc'[i] = "delete"
            /\ httpCount'[i] = 0
            /\ pingSleeps'[i] = 0

\* C8: pingEndPoints called with a map without entries returns nil in its
\* first step, with no HTTP request issued and no sleep taken.
C8_EmptyMapSucceeds == [] C8_EmptyInv /\ [][C8_EmptyStep]_vars

\* pingEndPoints returned nil on an empty map
C8_Witness ==
    \E i \in Cases :
        /\ "pingEndPoints" \in Range(trace[i])
        /\ result[i]["pingEndPoints"] = "ok"
        /\ httpCount[i] = 0
        /\ pingSleeps[i] = 0

\* the listing has, for every expected substring, a Running pod whose name
\* contains it
ListingSatisfies(items, expected) ==
    \A k \in Range(expected) :
        \E x \in DOMAIN items :
            items[x].Phase = "Running" /\ Contains(items[x].Name, k)

C9_FirstPollStep ==
    \A i \in Cases :
        /\ (/\ listCalls[i] = 0 /\ listCalls'[i] = 1
            /\ ~ pods'[i].err
            /\ ListingSatisfies(pods'[i].Items, tests[i].PodStarted)) =>
              /\ result'[i]["PodsStarted"] = "ok"
              /\ pc'[i] = "getEndPoints"
              /\ podSleeps'[i] = 0
        /\ result[i]["PodsStarted"] = "ok" =>
              /\ listCalls'[i] = listCalls[i]
              /\ podSleeps'[i] = podSleeps[i]

\* C9: when the first listing has a Running pod for every expected
\* substring, PodsStarted returns nil in the step of that first list call,
\* without a sleep, and lists no more.
C9_FirstPollReturns == [][C9_FirstPollStep]_vars

\* two substrings were expected and PodsStarted returned after one list call
C9_Witness ==
    \E i \in Cases :
        /\ Len(tests[i].PodStarted) = 2
        /\ result[i]["PodsStarted"] = "ok"
        /\ listCalls[i] = 1
        /\ podSleeps[i] = 0

\* the test case and the cluster of the end-to-end scenario
C10_Case(i) ==
    tests[i] = [InputFiles |-> 1, PodStarted |-> << <<"w", "e", "b">> >>,
                NodePortServices |->
                    << [Name |-> <<"s", "v", "c">>, Port |-> 8080] >>]

C10_Cluster(i) ==
    /\ pods[i] = [err |-> FALSE,
                  Items |-> << [Name |-> <<"w", "e", "b", "-", "a", "b", "c",
                                           "1", "2", "3">>,
                                Phase |-> "Running"] >>]
    /\ Len(runningSvcs[i]) = 1
    /\ runningSvcs[i][1] = [Name |-> <<"s", "v", "c">>,
                            Ports |-> << [Port |-> 8080, NodePort |-> 30080] >>]
    /\ Len(node[i]) >= 1
    /\ Len(node[i][1].Addresses) >= 1
    /\ node[i][1].Addresses[1] = <<"1", "0", ".", "0", ".", "0", ".", "5">>

C10_Key == <<"s", "v", "c", ":", "8", "0", "8", "0">>

C10_URL == <<"h", "t", "t", "p", ":", "/", "/", "1", "0", ".", "0", ".", "0",
             ".", "5", ":", "3", "0", "0", "8", "0">>

C10_Step ==
    \A i \in Cases :
        C10_Case(i) =>
            /\ (/\ result[i]["getEndPoints"] = "none"
                /\ result'[i]["getEndPoints"] # "none"
                /\ C10_Cluster(i)') =>
                  /\ result'[i]["getEndPoints"] = "ok"
                  /\ DOMAIN endPoints'[i] = {C10_Key}
                  /\ endPoints'[i][C10_Key] = C10_URL
            /\ (/\ C10_Cluster(i)
                /\ pc[i] = "pingEndPoints"
                /\ httpCount'[i] # httpCount[i]
                /\ respose'[i] = [e |-> C10_Key, err |-> FALSE,
                                  Status |-> "200 OK"]) =>
                  /\ CaseSucceeded(i)'
                  /\ pc'[i] = "delete"
                  /\ DOMAIN endPoints'[i] = {}
                  /\ runResult' # "err"

\* C10: for the test case {one file, "web", svc:8080} against a cluster that
\* reports the Running pod web-abc123, the service svc with 8080 on node
\* port 30080 and the first node address 10.0.0.5, getEndPoints returns
\* exactly svc:8080 -> http://10.0.0.5:30080, and the probe of it that is
\* answered "200 OK" ends the pipeline with every step successful.
C10_EndToEnd == [][C10_Step]_vars

\* the scenario ran to success on its first probe
C10_Witness ==
    \E i \in Cases :
        /\ C10_Case(i) /\ C10_Cluster(i)
        /\ CaseSucceeded(i)
        /\ respose[i].e = C10_Key
        /\ httpCount[i] = 1

(***************************************************************************)
(* C11.  A failure of the namespace delete call is only logged: whatever   *)
(* the variant, a test case whose delete call failed does not make the run *)
(* fail when no other step of any test case failed, and the run does not   *)
(* return before every declared test case was taken up.                    *)
(***************************************************************************)
C11_OnlyDeleteFailed ==
    /\ \E i \in Cases : result[i]["delete"] = "err"
    /\ \A i \in Cases : \A s \in Steps \ {"delete"} :
           result[i][s] \notin {"err", "panic"}

C11_DeleteFailureOnlyLogged ==
    C11_OnlyDeleteFailed =>
        /\ runResult # "err"
        /\ mainPc \notin {"fatal"}
        /\ mainPc = "returned" => \A i \in Cases : pc[i] # "idle"

\* the substrings PodsStarted of test case i still waits for
Remaining(i) ==
    IF listCalls[i] = 0 THEN Range(tests[i].PodStarted) ELSE podUp[i]

C14_ListErrorStep ==
    \A i \in Cases :
        /\ (listCalls'[i] # listCalls[i] /\ pods'[i].err) =>
              /\ result'[i]["PodsStarted"] = "err"
              /\ pc'[i] # "PodsStarted"
              /\ podSleeps'[i] = podSleeps[i]
              /\ podUp'[i] = Remaining(i)
        /\ result[i]["PodsStarted"] = "err" =>
              /\ listCalls'[i] = listCalls[i]
              /\ podSleeps'[i] = podSleeps[i]
              /\ podUp'[i] = podUp[i]
              /\ pods'[i] = pods[i]

\* C14: when the pod list call of some turn of the loop fails, PodsStarted
\* returns an error in that turn: it does not sleep, the remaining set is
\* left as it was (no pod is examined), and it never lists again; this
\* holds whatever the remaining set is, the empty expected set included.
C14_ListErrorReturns == [][C14_ListErrorStep]_vars

\* nothing was expected and the only list call failed
C14_Witness ==
    \E i \in Cases :
        /\ tests[i].PodStarted = <<>>
        /\ listCalls[i] = 1 /\ pods[i].err
        /\ result[i]["PodsStarted"] = "err"
        /\ podSleeps[i] = 0

\* the keys the current pass of pingEndPoints of test case i has yet to visit
PassTodo(i) ==
    IF "pingEndPoints" \in Range(trace[i])
    THEN pingTodo[i] ELSE DOMAIN endPoints[i]

C15_RequestErrorStep ==
    \A i \in Cases :
        (httpCount'[i] # httpCount[i] /\ respose'[i].err) =>
            LET e == respose'[i].e
                others == PassTodo(i) \ {e}
            IN  /\ e \in PassTodo(i)
                /\ endPoints'[i] = endPoints[i]
                /\ e \in DOMAIN endPoints'[i]
                /\ pingSleeps'[i] = pingSleeps[i] + 1
                /\ pc'[i] = "pingEndPoints"
                /\ result'[i]["pingEndPoints"] = "none"
                /\ pingErr'[i] = pingErr[i]
                /\ others # {} => pingTodo'[i] = others
                /\ others = {} => pingTodo'[i] = DOMAIN endPoints[i]

\* C15: a probe whose request fails leaves the entry in the map, pauses
\* once, and goes on with the entries the pass has not visited yet (the
\* pass is neither stopped nor restarted); when the pass is over the failed
\* entry is among those the next pass visits; the call does not return and
\* records no error.
C15_RequestErrorRetried == [][C15_RequestErrorStep]_vars

\* of two endpoints one failed once at the request level: one pause, three
\* requests, and the poll succeeded
C15_Witness ==
    \E i \in Cases :
        /\ Len(tests[i].NodePortServices) = 2
        /\ result[i]["pingEndPoints"] = "ok"
        /\ httpCount[i] = 3
        /\ pingSleeps[i] = 1

C16_RemovalStep ==
    \A i \in Cases :
        /\ httpCount'[i] # httpCount[i] =>
              LET e == respose'[i].e
                  ok == ~ respose'[i].err /\ respose'[i].Status = "200 OK"
              IN  /\ ok => /\ DOMAIN endPoints'[i] = DOMAIN endPoints[i] \ {e}
                           /\ e \in DOMAIN endPoints[i]
                           /\ \A k \in DOMAIN endPoints'[i] :
                                 endPoints'[i][k] = endPoints[i][k]
                  /\ ~ ok => endPoints'[i] = endPoints[i]
                  /\ (~ respose'[i].err /\ respose'[i].Status # "200 OK") =>
                        /\ result'[i]["pingEndPoints"] = "err"
                        /\ pc'[i] # "pingEndPoints"
        /\ (pc[i] = "pingEndPoints" /\ endPoints'[i] # endPoints[i]) =>
              /\ httpCount'[i] # httpCount[i]
              /\ ~ respose'[i].err
              /\ respose'[i].Status = "200 OK"

\* C16: pingEndPoints removes an entry from the map exactly in the probe
\* of that entry that is answered with the status "200 OK"; a response with
\* any other status, 201 and 204 included, removes nothing and makes the
\* call return an error in that step.
C16_RemovedIffStatusOK == [][C16_RemovalStep]_vars

\* of two endpoints one was removed by a 200 OK and the probe of the other,
\* answered 204, ended the poll
C16_Witness ==
    \E i \in Cases :
        /\ Len(tests[i].NodePortServices) = 2
        /\ httpCount[i] = 2
        /\ Cardinality(DOMAIN endPoints[i]) = 1
        /\ result[i]["pingEndPoints"] = "err"
        /\ pingErr[i].got = "204 No Content"

\* k occurs in name at some offset
OccursIn(k, name) ==
    \E off \in 0 .. (Len(name) - Len(k)) :
        \A c \in 1 .. Len(k) : name[off + c] = k[c]

\* the listing has a Running pod whose name has k in it
C17_Matched(items, k) ==
    \E x \in DOMAIN items :
        items[x].Phase = "Running" /\ OccursIn(k, items[x].Name)

C17_PollStep ==
    \A i \in Cases :
        /\ (listCalls'[i] # listCalls[i] /\ ~ pods'[i].err) =>
              /\ podUp'[i] =
                    {k \in Remaining(i) : ~ C17_Matched(pods'[i].Items, k)}
              /\ result'[i]["PodsStarted"] = "ok" <=> podUp'[i] = {}
              /\ podUp'[i] # {} =>
                    /\ pc'[i] = "PodsStarted"
                    /\ result'[i]["PodsStarted"] = "none"
        /\ (listCalls[i] > 0 /\ podUp'[i] # podUp[i]) =>
              listCalls'[i] # listCalls[i]

\* C17: a poll that listed the pods removes from the remaining set exactly
\* the substrings for which that listing has a pod in phase Running whose
\* name contains the substring (anywhere: "webcache-xyz" removes "web"); a
\* pod in another phase removes nothing; PodsStarted returns nil in that
\* poll exactly when the set is empty at its end, and goes on otherwise.
C17_RemovedIffRunningMatch == [][C17_PollStep]_vars

\* "web" and "db" were expected; a first poll left something behind, the
\* second saw webcache-xyz and db-1 Running and PodsStarted returned nil
C17_Witness ==
    \E i \in Cases :
        /\ Range(tests[i].PodStarted) = {sWeb, sDb}
        /\ listCalls[i] = 2 /\ podSleeps[i] = 1
        /\ pods[i].Items = <<Pod(sWebCache, "Running"), Pod(sDbPod, "Running")>>
        /\ result[i]["PodsStarted"] = "ok"

\* PodsStarted of test case i has been called and has not returned
C18_Polling(i) == pc[i] = "PodsStarted"

C18_BlockedInv ==
    \A i \in Cases :
        C18_Polling(i) =>
            /\ \A s \in {"getEndPoints", "pingEndPoints", "delete"} :
                  result[i][s] = "none" /\ s \notin Range(trace[i])
            /\ httpCount[i] = 0 /\ deleteCalls[i] = 0
            /\ variant = "conc" =>
                  /\ wg > 0
                  /\ ~ ENABLED ConcWait
                  /\ mainPc \notin {"returned", "exit0", "fatal"}
            /\ (~crashed /\ listCalls[i] < MaxPolls) =>
                  ENABLED PodsStartedPoll(i)

C18_BlockedStep ==
    \A i \in Cases :
        (C18_Polling(i) /\ ~ pods'[i].err /\ podUp'[i] # {}) =>
            /\ pc'[i] = "PodsStarted"
            /\ result'[i]["PodsStarted"] = "none"

\* C18: PodsStarted returns only in a poll whose list call failed or which
\* left the remaining set empty: after any other poll it is still polling,
\* whatever the number of polls made, and the next poll can be taken.  While
\* it polls, the test case has not started endpoint resolution, health
\* polling or namespace deletion, and in the concurrent RunTests the
\* WaitGroup counter is positive and wg.Wait does not let RunTests return,
\* whatever the state of the sibling tasks.
C18_NeverReturnsUnmatched == [] C18_BlockedInv /\ [][C18_BlockedStep]_vars

\* the concurrent run with a sibling task ended and a task still polling
\* after as many unmatched listings as the model covers
C18_Witness ==
    /\ variant = "conc" /\ mainPc = "loop" /\ next = Len(tests) + 1
    /\ \E i, j \in Cases :
          /\ C18_Polling(i)
          /\ listCalls[i] = MaxPolls /\ podSleeps[i] = MaxPolls
          /\ ~ pods[i].err /\ podUp[i] # {}
          /\ pc[j] = "done" /\ CaseSucceeded(j)

\* the listing has a service of the declared name with the declared port
C20_Live(d, items) ==
    \E y \in DOMAIN items :
        /\ items[y].Name = d.Name
        /\ \E z \in DOMAIN items[y].Ports : items[y].Ports[z].Port = d.Port

\* the map has an entry for the declared ServicePort
C20_HasEntry(d, endpoint) ==
    \E k \in DOMAIN endpoint :
        /\ BeforeLastColon(k) = d.Name
        /\ ParseNat(AfterLastColon(k)) = d.Port

\* C20: getEndPoints returns an error exactly when the node list call or
\* the service list call failed; when it returns a map, a declared
\* ServicePort has an entry exactly when the listed services have a service
\* of its name with a port entry of its port, so a declared ServicePort
\* without such a service is left out with no error and the map may have
\* fewer entries than there are declared ServicePorts, never more.
C20_OmittedSilently ==
    \A i \in Cases :
        /\ epErr[i] \in {"nil", "nodes", "services"}
        /\ result[i]["getEndPoints"] = "err" <=> epErr[i] # "nil"
        /\ epErr[i] = "nodes" => node[i] = <<>> /\ runningSvcs[i] = <<>>
        /\ (result[i]["getEndPoints"] = "ok" /\ pc[i] = "pingEndPoints"
              /\ httpCount[i] = 0) =>
              /\ \A x \in DOMAIN tests[i].NodePortServices :
                    LET d == tests[i].NodePortServices[x]
                    IN  C20_HasEntry(d, endPoints[i])
                           <=> C20_Live(d, runningSvcs[i])
              /\ Cardinality(DOMAIN endPoints[i])
                    <= Len(tests[i].NodePortServices)

\* svc:8080 is declared, the listing has svc with port 9090 only and an
\* unrelated service: getEndPoints returned an empty map and no error
C20_Witness ==
    \E i \in Cases :
        /\ Len(tests[i].NodePortServices) = 1
        /\ tests[i].NodePortServices[1].Name = sSvc
        /\ Len(runningSvcs[i]) = 2
        /\ result[i]["getEndPoints"] = "ok"
        /\ pc[i] = "pingEndPoints"
        /\ endPoints[i] = EmptyMap

(***************************************************************************)
(* pingEndPoints on its own, with no bound on the number of probes: the    *)
(* call starts on a map getEndPoints can return, in each orchestrator.     *)
(***************************************************************************)
\* the table of the call
PingTable ==
    << testData(2, <<sWeb, sDb>>,
                <<ServicePort(sSvc, 8080), ServicePort(sDb, 3306)>>) >>

\* the steps before pingEndPoints
BeforePing == SubSeq(StepOrder, 1, 5)

\* the test case is at the call of pingEndPoints, every earlier step having
\* returned nil
PingCalled ==
    /\ tests = PingTable
    /\ mainPc = IF variant = "integ" THEN "wait" ELSE "loop"
    /\ next = IF variant = "seq" THEN 1 ELSE 2
    /\ wg = IF variant = "conc" THEN 1 ELSE 0
    /\ runResult = "none"
    /\ crashed = FALSE
    /\ pc = <<"pingEndPoints">>
    /\ result = << [s \in Steps |->
                       IF s \in Range(BeforePing) THEN "ok" ELSE "none"] >>
    /\ trace = <<BeforePing>>
    /\ accessed = MainSetup \cup Accesses(0, {}, {"tests"}, {"test"}, 0, {})
                     \cup Accesses(0, {}, {"test"}, {"test"}, 1, {})
                     \cup UNION {StepAccesses(1, BeforePing[x]) :
                                    x \in DOMAIN BeforePing}
    /\ podUp = <<{}>>
    /\ pods = << [err |-> FALSE,
                  Items |-> <<Pod(sWebCache, "Running"),
                              Pod(sDbPod, "Running")>>] >>
    /\ listCalls = <<1>>
    /\ podSleeps = <<0>>
    /\ matched = <<{sWeb, sDb}>>
    /\ node = << <<Node(<<sNodeA, sNodeB>>), Node(<<sNodeB>>)>> >>
    /\ epErr = <<"nil">>
    /\ \E svc \in ServiceListings :
          /\ runningSvcs = <<svc>>
          /\ endPoints = << ScanDeclared(EmptyMap, PingTable[1].NodePortServices,
                                         svc, NodeIP(node[1])) >>
    /\ pingTodo = <<{}>>
    /\ respose = <<NoResponse>>
    /\ httpCount = <<0>>
    /\ pingSleeps = <<0>>
    /\ pingErr = <<NoError>>
    /\ deleteCalls = <<0>>

\* how the targets behave from the start of the call
NetStarts(keys) == {NetAny} \cup {NetDown(k) : k \in keys}

InitPing ==
    /\ variant \in Variants
    /\ PingCalled
    /\ kapp = KappIdle
    /\ kube = KubeIdle
    /\ net \in NetStarts(DOMAIN endPoints[1])

\* from now on every probe is answered 200 OK
NetHeals ==
    /\ net.mode = "any"
    /\ net' = NetHealthy
    /\ UNCHANGED <<cfgVars, mainVars, pc, result, trace, accessed, podVars, epVars,
                   pingVars, deleteCalls, kapp, kube>>

\* a probe of pingEndPoints, however many were made before
PingPoll(i) == ProbeTurn(i)

NextPing ==
    \/ NetHeals
    \/ \E i \in Cases : PingEmpty(i)
    \/ \E i \in Cases : PingPoll(i)

\* the goroutine of the call is scheduled again and again, and a request
\* ends within the client's timeout
FairPing ==
    /\ WF_vars(\E i \in Cases : PingEmpty(i))
    /\ WF_vars(\E i \in Cases : PingPoll(i))

SpecPing == InitPing /\ [][NextPing]_vars /\ FairPing

C19_ReturnInv ==
    \A i \in Cases :
        /\ result[i]["pingEndPoints"] = "ok" => DOMAIN endPoints[i] = {}
        /\ pc[i] = "pingEndPoints" =>
              ENABLED (PingEmpty(i) \/ PingPoll(i))

C19_ReturnStep ==
    \A i \in Cases :
        /\ (pc[i] = "pingEndPoints" /\ pc'[i] # "pingEndPoints") =>
              \/ /\ result'[i]["pingEndPoints"] = "ok"
                 /\ DOMAIN endPoints'[i] = {}
              \/ /\ result'[i]["pingEndPoints"] = "err"
                 /\ ~ respose'[i].err
                 /\ respose'[i].Status # "200 OK"
                 /\ pingErr[i] = NoError
                 /\ pingErr'[i].got = respose'[i].Status
        /\ (/\ net.mode = "down" /\ pc[i] = "pingEndPoints"
            /\ net.bad \in DOMAIN endPoints[i]) =>
              /\ pc'[i] = "pingEndPoints"
              /\ result'[i]["pingEndPoints"] = "none"
              /\ net.bad \in DOMAIN endPoints'[i]
              /\ net' = net

C19_Healed == net.mode = "healthy" /\ pc[1] = "pingEndPoints"

C19_Returned == result[1]["pingEndPoints"] = "ok"

\* C19: pingEndPoints returns nil only with an empty map and returns
\* otherwise only in a probe answered with a status other than "200 OK";
\* while it runs a step of it can always be taken.  With the call scheduled
\* fairly, once every probe is answered "200 OK" the call eventually
\* returns nil.  When the target of an entry fails every request and no
\* target answers another status than "200 OK", the call never returns.
C19_PingTermination ==
    /\ [] C19_ReturnInv
    /\ [][C19_ReturnStep]_vars
    /\ (C19_Healed ~> C19_Returned)

\* two endpoints, probes that failed or were answered before the targets
\* turned healthy, and the call returned nil after more probes than the
\* counter follows
C19_Witness ==
    /\ net.mode = "healthy"
    /\ C19_Returned
    /\ Len(runningSvcs[1]) = 3
    /\ pingSleeps[1] >= 2
    /\ httpCount[1] = MaxProbes

(***************************************************************************)
(* RunKapp on its own: the argument list, the one run of the generator and *)
(* what is returned.                                                       *)
(***************************************************************************)
\* the longest list of input files
MaxFiles == 2

Alnum ==
    {"a", "b", "c", "d", "e", "k", "m", "l", "r", "y", "D", "U", "H", "_"}

\* isShellSpecialVar of package os
ShellSpecial == {"*", "#", "$", "@", "!", "?", "-",
                 "0", "1", "2", "3", "4", "5", "6", "7", "8", "9"}

SetMin(S) == CHOOSE k \in S : \A m \in S : k <= m

\* getShellName of package os: the name after a "$" and the number of
\* characters it takes
ShellName(s) ==
    IF s[1] = "{"
    THEN IF Len(s) > 2 /\ s[2] \in ShellSpecial /\ s[3] = "}"
         THEN [name |-> <<s[2]>>, w |-> 3]
         ELSE LET closes == {k \in 2 .. Len(s) : s[k] = "}"}
              IN  IF closes = {} THEN [name |-> <<>>, w |-> 1]
                  ELSE IF SetMin(closes) = 2 THEN [name |-> <<>>, w |-> 2]
                  ELSE [name |-> SubSeq(s, 2, SetMin(closes) - 1),
                        w |-> SetMin(closes)]
    ELSE IF s[1] \in ShellSpecial
    THEN [name |-> <<s[1]>>, w |-> 1]
    ELSE LET stops == {k \in 1 .. Len(s) : s[k] \notin Alnum}
             n == IF stops = {} THEN Len(s) ELSE SetMin(stops) - 1
         IN  [name |-> SubSeq(s, 1, n), w |-> n]

\* os.Getenv against the environment env
Getenv(env, name) == IF name \in DOMAIN env THEN env[name] ELSE <<>>

\* variant of ExpandEnv: the path is passed as written
ExpandEnvIdentity(s, env) == s

\* os.ExpandEnv(file)
RECURSIVE ExpandEnv(_, _)
ExpandEnv(s, env) ==
    IF s = <<>> THEN <<>>
    ELSE IF s[1] = "$" /\ Len(s) > 1
    THEN LET sn == ShellName(Tail(s))
             put == IF sn.name = <<>> /\ sn.w > 0 THEN <<>>
                    ELSE IF sn.name = <<>> THEN <<"$">>
                    ELSE Getenv(env, sn.name)
         IN  put \o ExpandEnv(SubSeq(s, 2 + sn.w, Len(s)), env)
    ELSE <<s[1]>> \o ExpandEnv(Tail(s), env)

sGenerate == <<"g", "e", "n", "e", "r", "a", "t", "e">>
sDashF == <<"-", "f">>

\* args := []string{"generate"}; for each file append "-f" and the
\* expanded path
RECURSIVE KappArgs(_, _)
KappArgs(files, env) ==
    IF files = <<>> THEN <<sGenerate>>
    ELSE KappArgs(SubSeq(files, 1, Len(files) - 1), env)
            \o <<sDashF, ExpandEnv(files[Len(files)], env)>>

\* strings.Join(elems, sep)
RECURSIVE Join(_, _)
Join(elems, sep) ==
    IF elems = <<>> THEN <<>>
    ELSE IF Len(elems) = 1 THEN elems[1]
    ELSE elems[1] \o sep \o Join(Tail(elems), sep)

\* %q of a string without characters to escape
Quote(s) == <<"\"">> \o s \o <<"\"">>

sErrorRunning ==
    <<"e", "r", "r", "o", "r", " ", "r", "u", "n", "n", "i", "n", "g", " ">>
sKapp == <<"k", "a", "p", "p", " ">>
sExitStatus ==
    <<"e", "x", "i", "t", " ", "s", "t", "a", "t", "u", "s", " ">>

\* fmt.Errorf("error running %q\n%s %s", "kapp " + args, stderr, err)
KappError(args, stdErr, exit) ==
    sErrorRunning \o Quote(sKapp \o Join(args, <<" ">>)) \o <<"\n">>
        \o stdErr \o <<" ">> \o sExitStatus \o FmtNat(exit)

\* the input file paths tried
pPlain == <<"a", ".", "y", "m", "l">>
pVar == <<"$", "D", "/", "a">>
pBrace == <<"$", "{", "D", "}", "b">>
pUnset == <<"d", "/", "$", "U">>
pDollar == <<"a", "$">>
Paths == {pPlain, pVar, pBrace, pUnset, pDollar}

sDir == <<"/", "r">>
Envs == { [n \in {<<"D">>} |-> sDir], [n \in {} |-> <<>>] }

FileLists == UNION {[1 .. n -> Paths] : n \in 0 .. MaxFiles}

\* what the generator writes to its standard output and standard error
KappOuts == {<<>>, <<"k", ":", " ", "v", "\n">>}
KappErrs == {<<>>, <<"b", "a", "d", " ", "f", "i", "l", "e">>}

\* a run outside the orchestrators: a table without test cases
InitKapp ==
    /\ variant = "seq"
    /\ tests = <<>>
    /\ InitRun
    /\ net = NetAny
    /\ kube = KubeIdle
    /\ \E files \in FileLists, env \in Envs :
          kapp = [pc |-> "called", files |-> files, env |-> env,
                  runs |-> <<>>, proc |-> <<>>, ret |-> <<>>]

runVars == <<cfgVars, mainVars, pc, result, trace, accessed, podVars, epVars,
             pingVars, deleteCalls>>

\* exec.Command(KappLoc, args...) and the start of cmd.Run()
KappStart ==
    /\ kapp.pc = "called"
    /\ kapp' = [kapp EXCEPT !.pc = "running",
                            !.runs = Append(@, KappArgs(kapp.files, kapp.env))]
    /\ UNCHANGED <<runVars, kube, net>>

\* the generator exits and cmd.Run() returns
KappReturn ==
    /\ kapp.pc = "running"
    /\ \E exit \in {0, 1}, out \in KappOuts, stdErr \in KappErrs :
          kapp' = [kapp EXCEPT
                     !.pc = "returned",
                     !.proc = [exit |-> exit, out |-> out, stdErr |-> stdErr],
                     !.ret = IF exit # 0
                             THEN [failed |-> TRUE, bytes |-> <<>>,
                                   err |-> KappError(kapp.runs[1], stdErr,
                                                     exit)]
                             ELSE [failed |-> FALSE, bytes |-> out,
                                   err |-> <<>>]]
    /\ UNCHANGED <<runVars, kube, net>>

NextKapp == KappStart \/ KappReturn

SpecKapp == InitKapp /\ [][NextKapp]_vars

\* what the path must be after expansion
C13_Expanded(path, env) ==
    LET d == IF <<"D">> \in DOMAIN env THEN sDir ELSE <<>>
    IN  CASE path = pPlain -> pPlain
          [] path = pVar -> d \o <<"/", "a">>
          [] path = pBrace -> d \o <<"b">>
          [] path = pUnset -> <<"d", "/">>
          [] path = pDollar -> pDollar

C13_ArgsRight(args, files, env) ==
    /\ Len(args) = 1 + 2 * Len(files)
    /\ args[1] = <<"g", "e", "n", "e", "r", "a", "t", "e">>
    /\ \A x \in DOMAIN files :
          /\ args[2 * x] = <<"-", "f">>
          /\ args[2 * x + 1] = C13_Expanded(files[x], env)

\* C13: RunKapp runs the generator once, with "generate" followed for each
\* input file, in order, by "-f" and the path with its environment
\* variables expanded (1 + 2n arguments, "generate" alone for no file);
\* when the generator exits with 0 its standard output is returned as it
\* is and no error; when it exits with another code no bytes are returned
\* and the error holds the arguments and the standard error text.
C13_RunKappContract ==
    /\ kapp.pc = "called" => kapp.runs = <<>>
    /\ kapp.pc \in {"running", "returned"} =>
          /\ Len(kapp.runs) = 1
          /\ C13_ArgsRight(kapp.runs[1], kapp.files, kapp.env)
    /\ kapp.pc = "returned" =>
          IF kapp.proc.exit = 0
          THEN /\ ~ kapp.ret.failed
               /\ kapp.ret.bytes = kapp.proc.out
          ELSE /\ kapp.ret.failed
               /\ kapp.ret.bytes = <<>>
               /\ Contains(kapp.ret.err, Join(kapp.runs[1], <<" ">>))
               /\ Contains(kapp.ret.err, kapp.proc.stdErr)
               /\ \A x \in DOMAIN kapp.runs[1] :
                     Contains(kapp.ret.err, kapp.runs[1][x])

\* two files with variables, set and unset; the generator failed and wrote
\* to its standard error
C13_Witness ==
    /\ kapp.pc = "returned"
    /\ kapp.files = <<pVar, pUnset>>
    /\ <<"D">> \in DOMAIN kapp.env
    /\ kapp.proc.exit = 1
    /\ kapp.proc.stdErr # <<>>
    /\ kapp.ret.failed

(***************************************************************************)
(* RunKubeCreate on its own: the parent's goroutines, the pipes to the     *)
(* kubectl process and that process.  "sync" is RunKubeCreate of main.go   *)
(* (write, close, ReadAll of stdout, ReadAll of stderr, Wait on one        *)
(* goroutine), "async" is RunKubeCreate with the writer goroutine and      *)
(* CombinedOutput.                                                         *)
(***************************************************************************)
\* bytes a pipe buffers before a write to it blocks
PipeCap == 1

\* the largest manifest and the largest output: one byte more than a pipe
\* buffers
MaxBytes == PipeCap + 1

KubeVersions == {"sync", "async"}

\* the state at kubectl.Start(): the manifest is yet to be written and the
\* process has its output yet to write
KubeStarted(ver, nIn, nOut, nErr) ==
    [ver |-> ver,
     pc |-> IF ver = "sync" THEN "write" ELSE "wait",
     wpc |-> IF ver = "sync" THEN "none" ELSE "write",
     cpc |-> IF ver = "sync" THEN "none" ELSE "copy",
     inLeft |-> nIn, inPipe |-> 0, inClosed |-> FALSE,
     outLeft |-> nOut, errLeft |-> nErr, outPipe |-> 0, errPipe |-> 0,
     op |-> "none", eof |-> FALSE, exited |-> FALSE]

InitKube ==
    /\ variant = "seq"
    /\ tests = <<>>
    /\ InitRun
    /\ net = NetAny
    /\ kapp = KappIdle
    /\ \E ver \in KubeVersions :
       \E nIn \in 0 .. MaxBytes, nOut \in 0 .. MaxBytes, nErr \in 0 .. MaxBytes :
          kube = KubeStarted(ver, nIn, nOut, nErr)

\* the goroutine that writes the manifest is at its write
Writing ==
    \/ kube.ver = "sync" /\ kube.pc = "write"
    \/ kube.ver = "async" /\ kube.wpc = "write"

\* kIn.Write(input): the next byte goes into the stdin pipe when the pipe
\* has room
KubeWrite ==
    /\ Writing
    /\ kube.inLeft > 0
    /\ kube.inPipe < PipeCap
    /\ kube' = [kube EXCEPT !.inLeft = @ - 1, !.inPipe = @ + 1]
    /\ UNCHANGED <<runVars, kapp, net>>

\* kIn.Close() once the whole manifest is written
KubeCloseIn ==
    /\ Writing
    /\ kube.inLeft = 0
    /\ kube' = [kube EXCEPT
                  !.inClosed = TRUE,
                  !.pc = IF kube.ver = "sync" THEN "readOut" ELSE @,
                  !.wpc = IF kube.ver = "async" THEN "done" ELSE @]
    /\ UNCHANGED <<runVars, kapp, net>>

\* ioutil.ReadAll(kOut), or the copying goroutine of CombinedOutput: a byte
\* is taken from the stdout pipe, or the end of the stream is seen once the
\* process has exited
KubeReadOut ==
    /\ \/ kube.ver = "sync" /\ kube.pc = "readOut"
       \/ kube.ver = "async" /\ kube.cpc = "copy"
    /\ \/ /\ kube.outPipe > 0
          /\ kube' = [kube EXCEPT !.outPipe = @ - 1]
       \/ /\ kube.outPipe = 0 /\ kube.exited
          /\ kube' = [kube EXCEPT
                        !.pc = IF kube.ver = "sync" THEN "readErr" ELSE @,
                        !.cpc = IF kube.ver = "async" THEN "done" ELSE @]
    /\ UNCHANGED <<runVars, kapp, net>>

\* ioutil.ReadAll(kErr)
KubeReadErr ==
    /\ kube.ver = "sync" /\ kube.pc = "readErr"
    /\ \/ /\ kube.errPipe > 0
          /\ kube' = [kube EXCEPT !.errPipe = @ - 1]
       \/ /\ kube.errPipe = 0 /\ kube.exited
          /\ kube' = [kube EXCEPT !.pc = "wait"]
    /\ UNCHANGED <<runVars, kapp, net>>

\* kubectl.Wait() returns: the process has exited and, with
\* CombinedOutput, the copying goroutine is done
KubeWait ==
    /\ kube.pc = "wait"
    /\ kube.exited
    /\ kube.ver = "async" => kube.cpc = "done"
    /\ kube' = [kube EXCEPT !.pc = "returned"]
    /\ UNCHANGED <<runVars, kapp, net>>

\* kubectl turns to its next system call: a read of its input, a write to
\* its standard output or to its standard error
ChildPick ==
    /\ ~ kube.exited /\ kube.op = "none"
    /\ \E op \in {"read", "wout", "werr"} :
          /\ op = "read" => ~ kube.eof
          /\ op = "wout" => kube.outLeft > 0
          /\ op = "werr" => kube.errLeft > 0
          /\ kube' = [kube EXCEPT !.op = op]
    /\ UNCHANGED <<runVars, kapp, net>>

\* the read returns a byte, or the end of the input once the parent closed
\* its end
ChildRead ==
    /\ kube.op = "read"
    /\ \/ /\ kube.inPipe > 0
          /\ kube' = [kube EXCEPT !.inPipe = @ - 1, !.op = "none"]
       \/ /\ kube.inPipe = 0 /\ kube.inClosed
          /\ kube' = [kube EXCEPT !.eof = TRUE, !.op = "none"]
    /\ UNCHANGED <<runVars, kapp, net>>

\* the write to standard output goes through when the pipe has room
ChildWriteOut ==
    /\ kube.op = "wout"
    /\ kube.outPipe < PipeCap
    /\ kube' = [kube EXCEPT !.outPipe = @ + 1, !.outLeft = @ - 1,
                            !.op = "none"]
    /\ UNCHANGED <<runVars, kapp, net>>

\* the write to standard error: its own pipe with StderrPipe, the pipe of
\* standard output with CombinedOutput
ChildWriteErr ==
    /\ kube.op = "werr"
    /\ IF kube.ver = "sync"
       THEN /\ kube.errPipe < PipeCap
            /\ kube' = [kube EXCEPT !.errPipe = @ + 1, !.errLeft = @ - 1,
                                    !.op = "none"]
       ELSE /\ kube.outPipe < PipeCap
            /\ kube' = [kube EXCEPT !.outPipe = @ + 1, !.errLeft = @ - 1,
                                    !.op = "none"]
    /\ UNCHANGED <<runVars, kapp, net>>

\* kubectl has read its whole input and written its whole output: it exits
ChildExit ==
    /\ ~ kube.exited /\ kube.op = "none"
    /\ kube.eof /\ kube.outLeft = 0 /\ kube.errLeft = 0
    /\ kube' = [kube EXCEPT !.exited = TRUE]
    /\ UNCHANGED <<runVars, kapp, net>>

NextKube ==
    \/ KubeWrite
    \/ KubeCloseIn
    \/ KubeReadOut
    \/ KubeReadErr
    \/ KubeWait
    \/ ChildPick
    \/ ChildRead
    \/ ChildWriteOut
    \/ ChildWriteErr
    \/ ChildExit

SpecKube == InitKube /\ [][NextKube]_vars

\* C12: RunKubeCreate never deadlocks: whatever the sizes of the manifest
\* and of the output on stdout and stderr, as long as the call has not
\* returned one of its goroutines or the kubectl process can take a step.
C12_NeverDeadlocks ==
    kube.pc # "returned" => ENABLED NextKube

C22_ShrinkInv ==
    \A i \in Cases :
        /\ listCalls[i] > 0 => podUp[i] \subseteq Range(tests[i].PodStarted)
        /\ result[i]["PodsStarted"] = "ok" =>
              /\ podUp[i] = {}
              /\ Range(tests[i].PodStarted) \subseteq matched[i]

C22_ShrinkStep ==
    \A i \in Cases :
        /\ listCalls[i] > 0 => podUp'[i] \subseteq podUp[i]
        /\ \A k \in Range(tests[i].PodStarted) :
              (listCalls[i] > 0 /\ k \notin podUp[i]) => k \notin podUp'[i]
        /\ \A k \in matched'[i] \ matched[i] :
              /\ listCalls'[i] = listCalls[i] + 1
              /\ C17_Matched(pods'[i].Items, k)

\* C22: the remaining set of PodsStarted only shrinks from one poll to the
\* next, and a substring that left it does not come back whatever later
\* listings show; when PodsStarted returns nil every expected substring was
\* matched by a Running pod in some listing of the call, which need not be
\* the same listing for all of them nor the last one.
C22_RemainingOnlyShrinks == [] C22_ShrinkInv /\ [][C22_ShrinkStep]_vars

\* "web" and "db" were expected; PodsStarted returned nil after a second
\* listing that shows web-abc123 Running and no pod for "db"
C22_Witness ==
    \E i \in Cases :
        /\ Range(tests[i].PodStarted) = {sWeb, sDb}
        /\ result[i]["PodsStarted"] = "ok"
        /\ listCalls[i] = 2
        /\ pods[i].Items = <<Pod(sWebPod, "Running")>>
        /\ ~ C17_Matched(pods[i].Items, sDb)

\* the node listing of the call came back without a first node or without
\* an address of the first node
C23_NoAddress(i) ==
    /\ epErr'[i] # "nodes"
    /\ \/ Len(node'[i]) = 0
       \/ Len(node'[i][1].Addresses) = 0

C23_CrashInv ==
    /\ crashed => ~ ENABLED Next
    /\ \A i \in Cases :
          (result[i]["getEndPoints"] = "panic" /\ variant \in {"seq", "conc"}) =>
              /\ crashed
              /\ deleteCalls[i] = 0
              /\ "delete" \notin Range(trace[i])
              /\ "pingEndPoints" \notin Range(trace[i])
              /\ mainPc = "loop"

C23_CrashStep ==
    \A i \in Cases :
        (pc[i] = "getEndPoints" /\ pc'[i] # "getEndPoints") =>
            /\ result'[i]["getEndPoints"] = "panic" <=> C23_NoAddress(i)
            /\ result'[i]["getEndPoints"] = "panic" =>
                  /\ epErr'[i] = "nil"
                  /\ endPoints'[i] = endPoints[i]
                  /\ runningSvcs'[i] = runningSvcs[i]
                  /\ variant \in {"seq", "conc"} => crashed'

\* C23: when the node list call succeeds and the listing has no node, or
\* its first node has no address, getEndPoints ends in an out-of-range
\* panic: no error value, no map, the services not listed.  In both
\* RunTests the process dies with it: no step of any test case and of main
\* is taken afterwards, RunTests has not returned, and the namespace of the
\* test case has had no delete call.
C23_NodeIPCrash == [] C23_CrashInv /\ [][C23_CrashStep]_vars

\* the concurrent run died of the panic of one task while the other task
\* was polling for its pods
C23_Witness ==
    /\ variant = "conc" /\ crashed
    /\ \E i, j \in Cases :
          /\ result[i]["getEndPoints"] = "panic"
          /\ node[i] = <<Node(<<>>)>>
          /\ deleteCalls[i] = 0
          /\ pc[j] = "PodsStarted" /\ listCalls[j] = 1

\* getEndPoints of test case i returned a map and the services it listed
\* match none of the declared ServicePorts
C24_NoneLive(i) ==
    /\ result[i]["getEndPoints"] = "ok"
    /\ \A x \in DOMAIN tests[i].NodePortServices :
          ~ C20_Live(tests[i].NodePortServices[x], runningSvcs[i])

\* C24: when the services listed match none of the declared ServicePorts
\* of a test case, getEndPoints returns the empty map, pingEndPoints can
\* only return nil and does so without one HTTP request, and the test case
\* ends as a success: every step of its pipeline returned nil and, in
\* Test_Integration, the subtest has not failed.
C24_UncheckedSuccess ==
    \A i \in Cases :
        C24_NoneLive(i) =>
            /\ httpCount[i] = 0 /\ pingSleeps[i] = 0
            /\ pingErr[i] = NoError
            /\ result[i]["pingEndPoints"] \in {"none", "ok"}
            /\ pc[i] = "pingEndPoints" =>
                  /\ endPoints[i] = EmptyMap
                  /\ ~ ENABLED PingProbe(i)
                  /\ ~crashed => ENABLED PingEmpty(i)
            /\ pc[i] \in {"delete", "done"} =>
                  /\ CaseSucceeded(i)
                  /\ ~ SubtestFailed(i)

\* svc:8080 was declared, the listing had svc with another port and db; the
\* test case went through to a successful delete with no request made
C24_Witness ==
    \E i \in Cases :
        /\ tests[i].NodePortServices = <<ServicePort(sSvc, 8080)>>
        /\ Len(runningSvcs[i]) = 2
        /\ C24_NoneLive(i)
        /\ CaseSucceeded(i)
        /\ result[i]["delete"] = "ok"
        /\ httpCount[i] = 0

\* the pairs <<service index, port index>> of the listing that match the
\* declared ServicePort
C26_Matches(d, items) ==
    {yz \in UNION {{<<y, z>> : z \in DOMAIN items[y].Ports} : y \in DOMAIN items} :
        /\ items[yz[1]].Name = d.Name
        /\ items[yz[1]].Ports[yz[2]].Port = d.Port}

\* the match the three loops of getEndPoints reach last
C26_LastMatch(d, items) ==
    CHOOSE yz \in C26_Matches(d, items) :
        \A other \in C26_Matches(d, items) :
            \/ other[1] < yz[1]
            \/ other[1] = yz[1] /\ other[2] <= yz[2]

C26_Scheme == <<"h", "t", "t", "p", ":", "/", "/">>

\* the entry of key k is the one of the declared ServicePort d
C26_KeyOf(k, d) ==
    /\ BeforeLastColon(k) = d.Name
    /\ ParseNat(AfterLastColon(k)) = d.Port
    /\ Len(k) = Len(d.Name) + 1 + Len(AfterLastColon(k))

\* C26: the map getEndPoints returns has at most one entry for each
\* distinct declared (name, port) pair; the key of an entry is "name:port"
\* of a declared pair, its value is "http://", the first address of the
\* first listed node, ":" and a node port, and that node port is the one of
\* the last service and port entry, in listing order, that match the pair.
C26_OneEntryLastMatch ==
    \A i \in Cases :
        (result[i]["getEndPoints"] = "ok" /\ pc[i] = "pingEndPoints"
            /\ httpCount[i] = 0) =>
            LET declared == tests[i].NodePortServices
                pairs == {<<declared[x].Name, declared[x].Port>> :
                             x \in DOMAIN declared}
            IN  /\ Cardinality(DOMAIN endPoints[i]) <= Cardinality(pairs)
                /\ \A x \in DOMAIN declared :
                      Cardinality({k \in DOMAIN endPoints[i] :
                                      C26_KeyOf(k, declared[x])}) <= 1
                /\ \A k \in DOMAIN endPoints[i] :
                      \E x \in DOMAIN declared :
                          LET d == declared[x]
                              v == endPoints[i][k]
                              yz == C26_LastMatch(d, runningSvcs[i])
                          IN  /\ C26_KeyOf(k, d)
                              /\ C26_Matches(d, runningSvcs[i]) # {}
                              /\ SubSeq(v, 1, 7) = C26_Scheme
                              /\ SubSeq(v, 8, LastColon(v) - 1)
                                    = node[i][1].Addresses[1]
                              /\ ParseNat(AfterLastColon(v)) =
                                    runningSvcs[i][yz[1]].Ports[yz[2]].NodePort

\* svc:8080 is declared twice and two listed services named svc have the
\* port 8080: one entry, with the node port of the second service
C26_Witness ==
    \E i \in Cases :
        /\ tests[i].NodePortServices =
              <<ServicePort(sSvc, 8080), ServicePort(sSvc, 8080)>>
        /\ result[i]["getEndPoints"] = "ok" /\ pc[i] = "pingEndPoints"
        /\ httpCount[i] = 0
        /\ Len(runningSvcs[i]) = 3
        /\ Cardinality(DOMAIN endPoints[i]) = 1
        /\ \A k \in DOMAIN endPoints[i] :
              ParseNat(AfterLastColon(endPoints[i][k])) = 30081

\* the namespaces the run created and has issued no delete call for
C25_Pending ==
    {i \in Cases : result[i]["createNS"] = "ok" /\ deleteCalls[i] = 0}

\* the namespaces the run created and has not deleted
C25_Left ==
    {i \in Cases : result[i]["createNS"] = "ok" /\ result[i]["delete"] # "ok"}

\* the test cases a step of which returned an error
C25_Failing ==
    {i \in Cases : \E s \in Steps : result[i][s] = "err"}

\* C25: in the sequential RunTests a test case is started only when every
\* test case before it in the table has ended with a successful delete
\* call, so at most one namespace created by the run is without a delete
\* call at any moment; when RunTests has returned an error, exactly one test
\* case failed, and the namespaces created and not deleted are that test
\* case's namespace if its creation succeeded and none otherwise; when the
\* process died of a panic it is the namespace of the panicking test case.
C25_OneNamespaceAtATime ==
    variant = "seq" =>
        /\ \A i, j \in Cases :
              (pc[i] # "idle" /\ j < i) =>
                  /\ pc[j] = "done"
                  /\ result[j]["delete"] = "ok"
        /\ Cardinality(C25_Pending) <= 1
        /\ runResult = "err" =>
              /\ Cardinality(C25_Failing) = 1
              /\ \A f \in C25_Failing :
                    C25_Left = IF result[f]["createNS"] = "ok"
                               THEN {f} ELSE {}
        /\ crashed =>
              C25_Left = {i \in Cases : result[i]["getEndPoints"] = "panic"}
        /\ runResult = "nil" => C25_Left = {}

\* the first test case ended with its namespace deleted, the second failed
\* after its namespace was created and RunTests returned the error
C25_Witness ==
    /\ variant = "seq" /\ runResult = "err"
    /\ Len(tests) = 2
    /\ result[1]["delete"] = "ok"
    /\ result[2]["createNS"] = "ok"
    /\ result[2]["RunKubeCreate"] = "err"
    /\ C25_Left = {2}

\* the variables a test case's goroutine owns
C21_Own == {"podUp", "endPoints", "convertedOutput", "test"}

\* the variables every goroutine shares
C21_Shared == {"KappLoc", "KubectlLoc", "clientset"}

\* two accesses that conflict: the same variable, different goroutines, at
\* least one of them a write
C21_Conflict(a, b) ==
    /\ a.var = b.var /\ a.of = b.of
    /\ a.who # b.who
    /\ "w" \in {a.kind, b.kind}

(***************************************************************************)
(* C21: in the concurrent variants each test case's pod-readiness set,     *)
(* endpoint map, manifest bytes and test-case record are created for and   *)
(* accessed by that test case only, the shared KappLoc and KubectlLoc are  *)
(* written only before the first test case starts and only read            *)
(* afterwards, and no test case reads or writes a variable that another    *)
(* goroutine writes while the test case runs.                              *)
(***************************************************************************)
C21_NoSharedWrites ==
    variant \in {"conc", "integ"} =>
        /\ \A a \in accessed :
              /\ a.who # 0 =>
                    \/ a.var \in C21_Own /\ a.of = a.who
                    \/ a.var \in C21_Shared /\ a.of = 0 /\ a.kind = "r"
              /\ a.var \in C21_Own /\ a.of # 0 => a.who \in {0, a.of}
              /\ a.var \in C21_Shared /\ a.kind = "w" =>
                    a.who = 0 /\ a.live = {}
        /\ \A a, b \in accessed :
              C21_Conflict(a, b) =>
                  /\ 0 \in {a.who, b.who}
                  /\ a.who = 0 => b.who \notin a.live
                  /\ b.who = 0 => a.who \notin b.live

\* two test cases run at the same time, each has written its own manifest
\* bytes and pod-readiness set, both have read KappLoc and their own record
C21_Witness ==
    /\ variant \in {"conc", "integ"}
    /\ Len(tests) >= 2
    /\ pc[1] \notin {"idle", "done"} /\ pc[2] \notin {"idle", "done"}
    /\ \A i \in {1, 2} :
          /\ [who |-> i, var |-> "podUp", of |-> i, kind |-> "w",
              live |-> {}] \in accessed
          /\ [who |-> i, var |-> "convertedOutput", of |-> i, kind |-> "w",
              live |-> {}] \in accessed
          /\ [who |-> i, var |-> "KappLoc", of |-> 0, kind |-> "r",
              live |-> {}] \in accessed
          /\ [who |-> i, var |-> "test", of |-> i, kind |-> "r",
              live |-> {}] \in accessed
    /\ [who |-> 0, var |-> "test", of |-> 2, kind |-> "w",
        live |-> {1}] \in accessed

=============================================================================
